---- MODULE Spec2Model ----
(***************************************************************************)
(* Model of the Cosmos Reason 2 examples:                                  *)
(*   video_evaluator.py : evaluate_video, batch_evaluate, main             *)
(*   cosmos_client.py   : load_yaml_prompt, parse_reasoning,               *)
(*                        display_result, process_file, test_connection,   *)
(*                        main                                             *)
(* Text is modelled character by character: a string is a sequence of      *)
(* one-character strings, so that regular-expression search, str.upper(),  *)
(* str.strip() and the substring test `in` are computed, not assumed.      *)
(***************************************************************************)
EXTENDS Integers, Sequences, FiniteSets, TLC

VARIABLES
    pc,          \* video_evaluator: position of main/batch_evaluate
    folder,      \* video_evaluator: file names present in the input folder
    outputGiven, \* video_evaluator: args.output_folder is not None
    outDirMade,  \* video_evaluator: output_folder.mkdir(...) was called
    videos,      \* video_evaluator: list(video_folder.glob("*.mp4"))
    i,           \* video_evaluator: loop index of enumerate(videos, 1)
    results,     \* video_evaluator: the record list of batch_evaluate
    outputs,     \* video_evaluator: full_output captured for each finished job
    started,     \* video_evaluator: number of subprocess.run calls made
    raised,      \* video_evaluator: exception that escaped batch_evaluate
    csv,         \* video_evaluator: rows written by df.to_csv
    summary,     \* video_evaluator: total/passed/failed/unclear printed
    df,          \* video_evaluator: value returned by batch_evaluate
    exitStatus,  \* video_evaluator: exit status of the process
    transcript,  \* evaluate_video alone: the captured stdout
    returncode,  \* evaluate_video alone: exit code of the subprocess
    evaluated,   \* evaluate_video alone: its return value
    content,     \* parse_reasoning alone: the reply text
    parsed,      \* parse_reasoning alone: its return value
    cpc,         \* cosmos_client: position of main
    argv,        \* cosmos_client: shape of the command line
    env,         \* cosmos_client: the file, the prompt source and the server
    outcome,     \* cosmos_client: what process_file/test_connection did
    cexit        \* cosmos_client: exit status of the process

vars == <<pc, folder, outputGiven, outDirMade, videos, i, results, outputs,
          started, raised, csv, summary, df, exitStatus,
          transcript, returncode, evaluated, content, parsed,
          cpc, argv, env, outcome, cexit>>

batchVars  == <<pc, folder, outputGiven, outDirMade, videos, i, results,
                outputs, started, raised, csv, summary, df, exitStatus>>
evalVars   == <<transcript, returncode, evaluated>>
parseVars  == <<content, parsed>>
clientVars == <<cpc, argv, env, outcome, cexit>>

None == "None"

\* a Python value that is None, or the string t
PyNone  == [none |-> TRUE, text |-> <<>>]
Str(t)  == [none |-> FALSE, text |-> t]

----------------------------------------------------------------------------
(* Characters and strings *)

Lowers == <<"a","b","c","d","e","f","g","h","i","j","k","l","m",
            "n","o","p","q","r","s","t","u","v","w","x","y","z">>
Uppers == <<"A","B","C","D","E","F","G","H","I","J","K","L","M",
            "N","O","P","Q","R","S","T","U","V","W","X","Y","Z">>

Letters == {Lowers[k] : k \in DOMAIN Lowers} \cup {Uppers[k] : k \in DOMAIN Uppers}

\* \s of the re module, restricted to the characters that occur
Whitespace == {" ", "\n", "\t"}

\* \w of the re module: letters, digits and the underscore
IsWord(c) == c \in Letters \cup {"0","1","2","3","4","5","6","7","8","9","_"}

\* one character of str.upper()
UpperChar(c) ==
    IF \E k \in DOMAIN Lowers : Lowers[k] = c
    THEN Uppers[CHOOSE k \in DOMAIN Lowers : Lowers[k] = c]
    ELSE c

\* one character of str.lower() / of re.IGNORECASE folding
LowerChar(c) ==
    IF \E k \in DOMAIN Uppers : Uppers[k] = c
    THEN Lowers[CHOOSE k \in DOMAIN Uppers : Uppers[k] = c]
    ELSE c

Upper(s) == [k \in DOMAIN s |-> UpperChar(s[k])]

Min(S) == CHOOSE x \in S : \A y \in S : x <= y

\* the literal lit stands in s at position p
MatchAt(s, p, lit) ==
    /\ p >= 1
    /\ p + Len(lit) - 1 <= Len(s)
    /\ \A k \in 1..Len(lit) : s[p + k - 1] = lit[k]

\* the literal lit stands in s at position p, letter case ignored
MatchAtIgnoreCase(s, p, lit) ==
    /\ p >= 1
    /\ p + Len(lit) - 1 <= Len(s)
    /\ \A k \in 1..Len(lit) : LowerChar(s[p + k - 1]) = LowerChar(lit[k])

\* leftmost position >= from where lit stands in s, 0 when there is none
Find(s, lit, from) ==
    LET P == {p \in from..Len(s) : MatchAt(s, p, lit)}
    IN  IF P = {} THEN 0 ELSE Min(P)

FindIgnoreCase(s, lit, from) ==
    LET P == {p \in from..Len(s) : MatchAtIgnoreCase(s, p, lit)}
    IN  IF P = {} THEN 0 ELSE Min(P)

\* Python's `sub in s`
Contains(s, sub) == \E p \in 1..(Len(s) + 1) : MatchAt(s, p, sub)

\* greedy \s* from p: the first position >= p that holds no whitespace
RECURSIVE SkipWs(_, _)
SkipWs(s, p) ==
    IF p <= Len(s) /\ s[p] \in Whitespace THEN SkipWs(s, p + 1) ELSE p

\* greedy \w+ from p: the first position >= p that holds no word character
RECURSIVE WordEnd(_, _)
WordEnd(s, p) ==
    IF p <= Len(s) /\ IsWord(s[p]) THEN WordEnd(s, p + 1) ELSE p

\* the last position <= p that holds no whitespace (0 when there is none)
RECURSIVE BackWs(_, _)
BackWs(s, p) ==
    IF p >= 1 /\ s[p] \in Whitespace THEN BackWs(s, p - 1) ELSE p

\* str.strip()
Strip(s) == SubSeq(s, SkipWs(s, 1), BackWs(s, Len(s)))

----------------------------------------------------------------------------
(* video_evaluator.py: evaluate_video *)

L_Assistant == <<"A","s","s","i","s","t","a","n","t",":">>
L_Reasoning == <<"R","e","a","s","o","n","i","n","g",":">>
L_Separator == [k \in 1..20 |-> "-"]
L_YES       == <<"Y","E","S">>
L_NO        == <<"N","O">>
L_UNKNOWN   == <<"U","N","K","N","O","W","N">>
L_NA        == <<"N","/","A">>

\* re.search(r'Assistant:\s*(\w+)', output): the start of group 1 of the
\* leftmost match, 0 when nothing matches.  \s and \w are disjoint, so the
\* greedy \s* never gives a character back.
AssistantGroupStart(output) ==
    LET P == {p \in 1..Len(output) :
                /\ MatchAt(output, p, L_Assistant)
                /\ SkipWs(output, p + Len(L_Assistant)) <= Len(output)
                /\ IsWord(output[SkipWs(output, p + Len(L_Assistant))])}
    IN  IF P = {} THEN 0 ELSE SkipWs(output, Min(P) + Len(L_Assistant))

\* the tail (?:--------------------\s*Assistant:|$) matches at position e;
\* $ matches at the end and before a newline that ends the string
ReasoningTailAt(output, e) ==
    \/ /\ MatchAt(output, e, L_Separator)
       /\ MatchAt(output, SkipWs(output, e + Len(L_Separator)), L_Assistant)
    \/ e = Len(output) + 1
    \/ e = Len(output) /\ output[e] = "\n"

\* re.search(r'Reasoning:\s*(.*?)(?:--------------------\s*Assistant:|$)',
\*           output, re.DOTALL): group 1 of the leftmost match as
\* <<first, last>>, <<0, 0>> when nothing matches
ReasoningGroup(output) ==
    LET p == Find(output, L_Reasoning, 1)
        q == SkipWs(output, p + Len(L_Reasoning))
        e == Min({x \in q..(Len(output) + 1) : ReasoningTailAt(output, x)})
    IN  IF p = 0 THEN <<0, 0>> ELSE <<q, e - 1>>

\* lines 40-46 with the YES and NO tests swapped
VerdictOfNoFirst(answer_upper) ==
    IF Contains(answer_upper, L_NO) THEN "FAIL"
    ELSE IF Contains(answer_upper, L_YES) THEN "PASS"
    ELSE "UNCLEAR"

\* lines 40-46: the decision based on answer_upper
VerdictOf(answer_upper) ==
    IF Contains(answer_upper, L_YES) THEN "PASS"
    ELSE IF Contains(answer_upper, L_NO) THEN "FAIL"
    ELSE "UNCLEAR"

\* lines 21-48: everything evaluate_video does with the finished subprocess.
\* code is result.returncode, which the function never reads.
evaluate_video(output, code) ==
    LET a  == AssistantGroupStart(output)
        r  == ReasoningGroup(output)
        answer       == IF a # 0
                        THEN Strip(SubSeq(output, a, WordEnd(output, a) - 1))
                        ELSE L_UNKNOWN
        answer_upper == IF a # 0 THEN Upper(answer) ELSE L_UNKNOWN
        reasoning    == IF r # <<0, 0>>
                        THEN Strip(SubSeq(output, r[1], r[2]))
                        ELSE L_NA
    IN  [verdict   |-> VerdictOf(answer_upper),
         output    |-> output,
         answer    |-> answer,
         reasoning |-> reasoning]

\* the building blocks of the transcripts the checks enumerate
ReasoningBlock == L_Reasoning \o <<" ","o","k","\n">> \o L_Separator \o <<"\n">>
Pieces == {L_Assistant, L_Reasoning, L_Separator, ReasoningBlock, L_YES, L_NO,
           <<"y","e","s">>, <<"N","o">>, <<"o","k">>, L_UNKNOWN,
           <<" ">>, <<"\n">>, <<".">>}

MaxPieces == 3

RECURSIVE Concat(_)
Concat(ps) == IF ps = <<>> THEN <<>> ELSE Head(ps) \o Concat(Tail(ps))

Transcripts == {Concat(ps) : ps \in UNION {[1..n -> Pieces] : n \in 0..MaxPieces}}

ReturnCodes == {0, 1}

----------------------------------------------------------------------------
(* video_evaluator.py: batch_evaluate and main *)

MaxVideos == 3

\* the input folder: empty, or up to MaxVideos videos beside one other file
Mp4Files   == {[stem |-> k, suffix |-> ".mp4"] : k \in 1..MaxVideos}
OtherFiles == {[stem |-> 0, suffix |-> ".txt"]}
Folders    == {{}} \cup {{f \in Mp4Files : f.stem <= n} \cup OtherFiles : n \in 0..MaxVideos}

\* video_folder.glob("*.mp4"): the matching files, each once, in the order
\* the file system lists them
Listings(dir) ==
    LET match == {f \in dir : f.suffix = ".mp4"}
    IN  {l \in [1..Cardinality(match) -> match] :
            \A a, b \in DOMAIN l : a # b => l[a] # l[b]}

\* what the inference command may print for one video
Say(word) == L_Assistant \o <<" ">> \o word
SampleOutputs ==
    { <<>>,
      Say(L_YES),
      Say(L_NO),
      Say(<<"o","k">>),
      <<"o","k",".">>,
      ReasoningBlock \o Say(<<"y","e","s">>) }

\* no report file written yet; batch_evaluate has returned no DataFrame
NoFile  == [written |-> FALSE, rows |-> <<>>]
NoFrame == [none |-> TRUE, rows |-> <<>>]

\* number of records of rs with verdict v: (df['verdict'] == v).sum()
Count(rs, v) == Cardinality({k \in DOMAIN rs : rs[k].verdict = v})

Init ==
    /\ pc = "Idle"
    /\ folder \in Folders
    /\ outputGiven \in BOOLEAN
    /\ outDirMade = FALSE
    /\ videos = <<>>
    /\ i = 0
    /\ results = <<>>
    /\ outputs = <<>>
    /\ started = 0
    /\ raised = None
    /\ csv = NoFile
    /\ summary = <<>>
    /\ df = NoFrame
    /\ exitStatus = None
    /\ transcript = <<>> /\ returncode = 0 /\ evaluated = <<>>
    /\ content = <<>> /\ parsed = <<>>
    /\ cpc = "Off" /\ argv = None /\ env = None /\ outcome = None /\ cexit = None

\* main lines 173-176 calling batch_evaluate, lines 52-59
BatchStart ==
    /\ pc = "Idle"
    /\ outDirMade' = outputGiven
    /\ pc' = "Enumerating"
    /\ UNCHANGED <<folder, outputGiven, videos, i, results, outputs, started,
                   raised, csv, summary, df, exitStatus>>
    /\ UNCHANGED <<evalVars, parseVars, clientVars>>

\* lines 63-72 without the test of line 63: the loop runs over the listing
AfterListingUnchecked(l) == IF l = <<>> THEN "Aggregating" ELSE "Processing"

\* lines 63-72: an empty listing returns None, any other enters the loop
AfterListing(l) == IF l = <<>> THEN "Returned" ELSE "Processing"

\* lines 61-70
Enumerate ==
    /\ pc = "Enumerating"
    /\ \E l \in Listings(folder) :
          /\ videos' = l
          /\ pc' = AfterListing(l)
          /\ i' = IF l = <<>> THEN i ELSE 1
    /\ results' = <<>>
    /\ df' = NoFrame
    /\ UNCHANGED <<folder, outputGiven, outDirMade, outputs, started, raised,
                   csv, summary, exitStatus>>
    /\ UNCHANGED <<evalVars, parseVars, clientVars>>

\* lines 72-74 and 11-20: subprocess.run starts the command for videos[i]
StartJob ==
    /\ pc = "Processing"
    /\ started' = started + 1
    /\ pc' = "Running"
    /\ UNCHANGED <<folder, outputGiven, outDirMade, videos, i, results, outputs,
                   raised, csv, summary, df, exitStatus>>
    /\ UNCHANGED <<evalVars, parseVars, clientVars>>

\* line 20: subprocess.run cannot start the command and raises; neither
\* evaluate_video nor batch_evaluate has a handler
LaunchFails ==
    /\ pc = "Processing"
    /\ started' = started + 1
    /\ raised' = "FileNotFoundError"
    /\ pc' = "Crashed"
    /\ UNCHANGED <<folder, outputGiven, outDirMade, videos, i, results, outputs,
                   csv, summary, df, exitStatus>>
    /\ UNCHANGED <<evalVars, parseVars, clientVars>>

\* line 76 as results.insert(0, ...)
PrependRecord(rs, rec) == <<rec>> \o rs

\* line 76: results.append(...)
AppendRecord(rs, rec) == Append(rs, rec)

\* lines 20-48 and 74-91: the command ends, its output is parsed and the
\* record appended; the timestamp is the ordinal of the job
FinishJob ==
    /\ pc = "Running"
    /\ \E out \in SampleOutputs, code \in ReturnCodes :
          LET r == evaluate_video(out, code)
          IN  /\ results' = AppendRecord(results,
                                   [video      |-> videos[i],
                                    video_path |-> <<"in", videos[i]>>,
                                    verdict    |-> r.verdict,
                                    answer     |-> r.answer,
                                    reasoning  |-> r.reasoning,
                                    timestamp  |-> i])
              /\ outputs' = Append(outputs, r.output)
    /\ IF i = Len(videos)
       THEN pc' = "Aggregating" /\ i' = i
       ELSE pc' = "Processing" /\ i' = i + 1
    /\ UNCHANGED <<folder, outputGiven, outDirMade, videos, started, raised,
                   csv, summary, df, exitStatus>>
    /\ UNCHANGED <<evalVars, parseVars, clientVars>>

\* lines 93-99: the DataFrame is built and written, one row per record
WriteReport ==
    /\ pc = "Aggregating"
    /\ df' = [none |-> FALSE, rows |-> results]
    /\ csv' = [written |-> TRUE, rows |-> results]
    /\ pc' = "Saved"
    /\ UNCHANGED <<folder, outputGiven, outDirMade, videos, i, results, outputs,
                   started, raised, summary, exitStatus>>
    /\ UNCHANGED <<evalVars, parseVars, clientVars>>

\* lines 105-108 with failed counting every record that is not PASS
TallyLoose(rs) ==
    [total   |-> Len(rs),
     passed  |-> Count(rs, "PASS"),
     failed  |-> Len(rs) - Count(rs, "PASS"),
     unclear |-> Count(rs, "UNCLEAR")]

\* lines 105-108: the tallies of the summary
Tally(rs) ==
    [total   |-> Len(rs),
     passed  |-> Count(rs, "PASS"),
     failed  |-> Count(rs, "FAIL"),
     unclear |-> Count(rs, "UNCLEAR")]

\* lines 101-132: the summary is printed and df returned
Summarize ==
    /\ pc = "Saved"
    /\ summary' = <<Tally(df.rows)>>
    /\ pc' = "Reported"
    /\ UNCHANGED <<folder, outputGiven, outDirMade, videos, i, results, outputs,
                   started, raised, csv, df, exitStatus>>
    /\ UNCHANGED <<evalVars, parseVars, clientVars>>

\* main lines 176-179: batch_evaluate returned, main falls off its end
MainReturns ==
    /\ pc \in {"Reported", "Returned"}
    /\ exitStatus' = 0
    /\ pc' = "Exited"
    /\ UNCHANGED <<folder, outputGiven, outDirMade, videos, i, results, outputs,
                   started, raised, csv, summary, df>>
    /\ UNCHANGED <<evalVars, parseVars, clientVars>>

\* the exception leaves main: the interpreter prints the traceback and
\* exits with status 1
MainAborts ==
    /\ pc = "Crashed"
    /\ exitStatus' = 1
    /\ pc' = "Exited"
    /\ UNCHANGED <<folder, outputGiven, outDirMade, videos, i, results, outputs,
                   started, raised, csv, summary, df>>
    /\ UNCHANGED <<evalVars, parseVars, clientVars>>

Next ==
    \/ BatchStart
    \/ Enumerate
    \/ StartJob
    \/ LaunchFails
    \/ FinishJob
    \/ WriteReport
    \/ Summarize
    \/ MainReturns
    \/ MainAborts

Spec == Init /\ [][Next]_vars

----------------------------------------------------------------------------
(* evaluate_video on its own, over every transcript of the bounded set *)

InitEval ==
    /\ transcript \in Transcripts
    /\ returncode \in ReturnCodes
    /\ evaluated = <<>>
    /\ pc = "Off" /\ folder = {} /\ outputGiven = FALSE /\ outDirMade = FALSE
    /\ videos = <<>> /\ i = 0 /\ results = <<>> /\ outputs = <<>>
    /\ started = 0 /\ raised = None /\ csv = NoFile /\ summary = <<>>
    /\ df = NoFrame /\ exitStatus = None
    /\ content = <<>> /\ parsed = <<>>
    /\ cpc = "Off" /\ argv = None /\ env = None /\ outcome = None /\ cexit = None

\* lines 20-48 for one finished subprocess
EvaluateVideo ==
    /\ evaluated = <<>>
    /\ evaluated' = <<evaluate_video(transcript, returncode)>>
    /\ UNCHANGED <<transcript, returncode>>
    /\ UNCHANGED <<batchVars, parseVars, clientVars>>

NextEval == EvaluateVideo

SpecEval == InitEval /\ [][NextEval]_vars

----------------------------------------------------------------------------
(* cosmos_client.py: parse_reasoning *)

L_think    == <<"<","t","h","i","n","k",">">>
L_endthink == <<"<","/","t","h","i","n","k",">">>
L_answer   == <<"<","a","n","s","w","e","r",">">>
L_endanswer == <<"<","/","a","n","s","w","e","r",">">>

\* lines 49-50 without re.IGNORECASE
SectionGroupCaseSensitive(text, open, close) ==
    LET Closes(p) == {q \in (p + Len(open))..Len(text) : MatchAt(text, q, close)}
        P == {p \in 1..Len(text) : MatchAt(text, p, open) /\ Closes(p) # {}}
    IN  IF P = {} THEN <<0, 0>>
        ELSE <<Min(P) + Len(open), Min(Closes(Min(P))) - 1>>

\* re.search(open + r'(.*?)' + close, content, re.DOTALL | re.IGNORECASE):
\* group 1 of the leftmost match as <<first, last>>, <<0, 0>> when nothing
\* matches.  The lazy group ends at the first close marker after the open one.
SectionGroup(text, open, close) ==
    LET Closes(p) == {q \in (p + Len(open))..Len(text) :
                         MatchAtIgnoreCase(text, q, close)}
        P == {p \in 1..Len(text) :
                 MatchAtIgnoreCase(text, p, open) /\ Closes(p) # {}}
    IN  IF P = {} THEN <<0, 0>>
        ELSE <<Min(P) + Len(open), Min(Closes(Min(P))) - 1>>

\* lines 47-57
parse_reasoning(text) ==
    LET think_match  == SectionGroup(text, L_think, L_endthink)
        answer_match == SectionGroup(text, L_answer, L_endanswer)
    IN  IF think_match # <<0, 0>> /\ answer_match # <<0, 0>>
        THEN [thinking     |-> Str(Strip(SubSeq(text, think_match[1], think_match[2]))),
              answer       |-> Str(Strip(SubSeq(text, answer_match[1], answer_match[2]))),
              has_sections |-> TRUE]
        ELSE [thinking     |-> PyNone,
              answer       |-> Str(Strip(text)),
              has_sections |-> FALSE]

\* the building blocks of the reply texts the checks enumerate
ContentPieces ==
    {L_think, L_endthink, L_answer, L_endanswer,
     <<"<","T","H","I","N","K",">"," ","r"," ">>,
     <<" ","a","\n","<","/","A","n","s","w","e","r",">">>,
     <<" ">>, <<"x">>}

MaxParts == 4

Contents == {Concat(ps) : ps \in UNION {[1..n -> ContentPieces] : n \in 0..MaxParts}}

InitParse ==
    /\ content \in Contents
    /\ parsed = <<>>
    /\ pc = "Off" /\ folder = {} /\ outputGiven = FALSE /\ outDirMade = FALSE
    /\ videos = <<>> /\ i = 0 /\ results = <<>> /\ outputs = <<>>
    /\ started = 0 /\ raised = None /\ csv = NoFile /\ summary = <<>>
    /\ df = NoFrame /\ exitStatus = None
    /\ transcript = <<>> /\ returncode = 0 /\ evaluated = <<>>
    /\ cpc = "Off" /\ argv = None /\ env = None /\ outcome = None /\ cexit = None

\* lines 47-57 for one reply text
ParseReasoning ==
    /\ parsed = <<>>
    /\ parsed' = <<parse_reasoning(content)>>
    /\ UNCHANGED content
    /\ UNCHANGED <<batchVars, evalVars, clientVars>>

NextParse == ParseReasoning

SpecParse == InitParse /\ [][NextParse]_vars

----------------------------------------------------------------------------
(* cosmos_client.py: load_yaml_prompt, display_result, process_file,
   test_connection and main *)

Lower(s) == [k \in DOMAIN s |-> LowerChar(s[k])]

\* lines 30-31
VIDEO_EXTENSIONS == {<<".","m","p","4">>, <<".","a","v","i">>, <<".","m","o","v">>,
                     <<".","m","k","v">>, <<".","w","e","b","m">>}
IMAGE_EXTENSIONS == {<<".","j","p","g">>, <<".","j","p","e","g">>, <<".","p","n","g">>,
                     <<".","w","e","b","p">>, <<".","g","i","f">>}

\* lines 124-131: mime_map.get(ext, 'image/jpeg')
MimeOf(ext) ==
    CASE ext = <<".","p","n","g">>     -> "image/png"
      [] ext = <<".","w","e","b","p">> -> "image/webp"
      [] ext = <<".","g","i","f">>     -> "image/gif"
      [] OTHER                         -> "image/jpeg"

\* the classes each exception can be caught as, besides Exception
Bases(exc) ==
    CASE exc = "ConnectionError" -> {"ConnectionError"}
      [] exc = "ConnectTimeout"  -> {"ConnectionError", "Timeout"}
      [] exc = "ReadTimeout"     -> {"Timeout"}
      [] exc = "HTTPError"       -> {"HTTPError"}
      [] exc = "KeyError"        -> {"KeyError"}
      [] OTHER                   -> {}

\* lines 183-195 alone: the except clauses without the last one
HandlerForNoCatchAll(exc) ==
    IF "ConnectionError" \in Bases(exc) THEN "Error: Cannot connect to server"
    ELSE IF "Timeout" \in Bases(exc) THEN "Error: Request timed out."
    ELSE IF "HTTPError" \in Bases(exc) THEN "HTTP Error"
    ELSE IF "KeyError" \in Bases(exc) THEN "Error parsing response"
    ELSE "UNHANDLED"

\* lines 183-198: the message of the first except clause that catches exc
HandlerFor(exc) ==
    IF "ConnectionError" \in Bases(exc) THEN "Error: Cannot connect to server"
    ELSE IF "Timeout" \in Bases(exc) THEN "Error: Request timed out."
    ELSE IF "HTTPError" \in Bases(exc) THEN "HTTP Error"
    ELSE IF "KeyError" \in Bases(exc) THEN "Error parsing response"
    ELSE "Error"

\* lines 35-40: open, yaml.safe_load or data.get (on a document that is no
\* mapping) raises
YamlRaises(doc) == ~doc.opens \/ ~doc.parses \/ doc.kind # "mapping"

\* lines 33-45: <<system_prompt, user_prompt>>; every exception of the try
\* block gives None, None
load_yaml_prompt(doc) ==
    IF YamlRaises(doc)
    THEN <<"None", "None">>
    ELSE << CASE doc.system = "absent" -> "You are a helpful assistant."
              [] doc.system = "null"   -> "None"
              [] OTHER                 -> "yaml system prompt",
            IF doc.user = "absent" THEN "" ELSE "yaml user prompt" >>

\* lines 59-79: the sections display_result prints
display_result(text, show_reasoning) ==
    LET r == parse_reasoning(text)
    IN  IF r.has_sections /\ show_reasoning
        THEN <<"REASONING", r.thinking, "ANSWER", r.answer>>
        ELSE <<"RESULT", r.answer>>

\* lines 174-178: the exception the try block raises for this server, or "none"
ReplyException(server) ==
    IF server.post # "response" THEN server.post
    ELSE IF server.status >= 400 THEN "HTTPError"
    ELSE CASE server.body = "not json"      -> "JSONDecodeError"
           [] server.body = "no choices"    -> "KeyError"
           [] server.body = "empty choices" -> "IndexError"
           [] server.body = "null content"  -> "TypeError"
           [] OTHER                         -> "none"

NoRequest == [type |-> "none", mime |-> "none", system |-> "none", user |-> "none"]

Failed(message) ==
    [ret |-> PyNone, msg |-> message, sent |-> 0, request |-> NoRequest,
     shown |-> <<>>, escaped |-> "none"]

\* lines 81-198.  e is the file, the prompt file and the server; prompt is
\* the custom prompt (PyNone or a string)
process_file(e, prompt, show_reasoning) ==
    LET ext == Lower(e.suffix)
        file_type == IF ext \in VIDEO_EXTENSIONS THEN "video" ELSE "image"
        default_prompt == IF file_type = "video"
                          THEN "Caption this video in detail."
                          ELSE "Describe this image in detail."
        yaml == load_yaml_prompt(e.yaml)
        system_prompt == IF e.yaml.given THEN yaml[1]
                         ELSE "You are a helpful assistant that analyzes images and videos."
        user_prompt == IF e.yaml.given THEN yaml[2]
                       ELSE IF ~prompt.none /\ prompt.text # <<>>
                            THEN "custom prompt" ELSE default_prompt
        req == [type   |-> IF file_type = "video" THEN "video_url" ELSE "image_url",
                mime   |-> IF file_type = "video" THEN "video/mp4" ELSE MimeOf(ext),
                system |-> system_prompt,
                user   |-> user_prompt]
        exc == ReplyException(e.server)
    IN  IF ~e.exists THEN Failed("Error: File not found")
        ELSE IF ext \notin VIDEO_EXTENSIONS \cup IMAGE_EXTENSIONS
             THEN Failed("Error: Unsupported file type")
        ELSE IF ~e.readable THEN Failed("Error reading file")
        ELSE IF e.yaml.given /\ system_prompt = "None"
             THEN Failed(IF YamlRaises(e.yaml) THEN "Error loading YAML file" ELSE "")
        ELSE IF exc = "none"
             THEN [ret |-> Str(e.server.text), msg |-> "", sent |-> 1, request |-> req,
                   shown |-> display_result(e.server.text, show_reasoning),
                   escaped |-> "none"]
        ELSE IF HandlerFor(exc) = "UNHANDLED"
             THEN [ret |-> PyNone, msg |-> "", sent |-> 1, request |-> req,
                   shown |-> <<>>, escaped |-> exc]
        ELSE [ret |-> PyNone, msg |-> HandlerFor(exc), sent |-> 1, request |-> req,
              shown |-> <<>>, escaped |-> "none"]

\* lines 200-214: every exception of the try block gives False
test_connection(server) ==
    server.post = "response" /\ server.status < 400 /\ server.body # "not json"

\* the media files, prompt files and servers the checks enumerate
Suffixes == {<<".","m","p","4">>, <<".","M","O","V">>, <<".","j","p","g">>,
             <<".","P","N","G">>, <<".","t","x","t">>, <<>>}

NoYaml == [given |-> FALSE, opens |-> FALSE, parses |-> FALSE, kind |-> "none",
           system |-> "absent", user |-> "absent"]
YamlDocs ==
    { NoYaml,
      [given |-> TRUE, opens |-> FALSE, parses |-> FALSE, kind |-> "none",
       system |-> "absent", user |-> "absent"],
      [given |-> TRUE, opens |-> TRUE, parses |-> FALSE, kind |-> "none",
       system |-> "absent", user |-> "absent"],
      [given |-> TRUE, opens |-> TRUE, parses |-> TRUE, kind |-> "list",
       system |-> "absent", user |-> "absent"],
      [given |-> TRUE, opens |-> TRUE, parses |-> TRUE, kind |-> "mapping",
       system |-> "absent", user |-> "absent"],
      [given |-> TRUE, opens |-> TRUE, parses |-> TRUE, kind |-> "mapping",
       system |-> "null", user |-> "text"],
      [given |-> TRUE, opens |-> TRUE, parses |-> TRUE, kind |-> "mapping",
       system |-> "text", user |-> "text"] }

Replies ==
    { <<>>,
      <<"o","k">>,
      L_think \o <<"r">> \o L_endthink \o L_answer \o <<"a">> \o L_endanswer }

Servers ==
    {[post |-> p, status |-> 200, body |-> "none", text |-> <<>>] :
        p \in {"ConnectionError", "ConnectTimeout", "ReadTimeout"}}
    \cup {[post |-> "response", status |-> 500, body |-> "none", text |-> <<>>]}
    \cup {[post |-> "response", status |-> 200, body |-> b, text |-> <<>>] :
            b \in {"not json", "no choices", "empty choices", "null content"}}
    \cup {[post |-> "response", status |-> 200, body |-> "content", text |-> t] :
            t \in Replies}

Envs == [exists : BOOLEAN, suffix : Suffixes, readable : BOOLEAN,
         yaml : YamlDocs, server : Servers]

\* the shapes of sys.argv that main tells apart
Argvs == [mode : {"none", "help", "test", "flag without path", "no file", "file"},
          prompt : BOOLEAN, no_reasoning : BOOLEAN]

NoOutcome == [ret |-> PyNone, msg |-> "not run", sent |-> 0, request |-> NoRequest,
              shown |-> <<>>, escaped |-> "none"]

InitClient ==
    /\ cpc = "Start"
    /\ argv \in Argvs
    /\ env \in Envs
    /\ argv.mode \notin {"file", "test"} =>
          /\ env.exists /\ env.readable /\ env.suffix = <<>>
          /\ env.yaml = NoYaml /\ env.server.post = "ConnectionError"
          /\ ~argv.prompt /\ ~argv.no_reasoning
    /\ argv.mode = "test" =>
          /\ env.exists /\ env.readable /\ env.suffix = <<>> /\ env.yaml = NoYaml
          /\ ~argv.prompt /\ ~argv.no_reasoning
    /\ outcome = NoOutcome
    /\ cexit = None
    /\ pc = "Off" /\ folder = {} /\ outputGiven = FALSE /\ outDirMade = FALSE
    /\ videos = <<>> /\ i = 0 /\ results = <<>> /\ outputs = <<>>
    /\ started = 0 /\ raised = None /\ csv = NoFile /\ summary = <<>>
    /\ df = NoFrame /\ exitStatus = None
    /\ transcript = <<>> /\ returncode = 0 /\ evaluated = <<>>
    /\ content = <<>> /\ parsed = <<>>

\* lines 233-235: no argument, usage and exit status 1
MainUsage ==
    /\ cpc = "Start" /\ argv.mode = "none"
    /\ cexit' = 1
    /\ cpc' = "Exited"
    /\ UNCHANGED <<argv, env, outcome>>
    /\ UNCHANGED <<batchVars, evalVars, parseVars>>

\* lines 238-240: help, usage and exit status 0
MainHelp ==
    /\ cpc = "Start" /\ argv.mode = "help"
    /\ cexit' = 0
    /\ cpc' = "Exited"
    /\ UNCHANGED <<argv, env, outcome>>
    /\ UNCHANGED <<batchVars, evalVars, parseVars>>

\* lines 242-244: test_connection() is called and its result dropped
MainTest ==
    /\ cpc = "Start" /\ argv.mode = "test"
    /\ outcome' = [NoOutcome EXCEPT
                     !.msg = IF test_connection(env.server)
                             THEN "Connected!" ELSE "Connection failed"]
    /\ cexit' = 0
    /\ cpc' = "Exited"
    /\ UNCHANGED <<argv, env>>
    /\ UNCHANGED <<batchVars, evalVars, parseVars>>

\* lines 252-259: --prompt-file is the last argument
MainPromptFileWithoutPath ==
    /\ cpc = "Start" /\ argv.mode = "flag without path"
    /\ cexit' = 1
    /\ cpc' = "Exited"
    /\ UNCHANGED <<argv, env, outcome>>
    /\ UNCHANGED <<batchVars, evalVars, parseVars>>

\* lines 261-264: only flags, no file
MainNoFile ==
    /\ cpc = "Start" /\ argv.mode = "no file"
    /\ cexit' = 1
    /\ cpc' = "Exited"
    /\ UNCHANGED <<argv, env, outcome>>
    /\ UNCHANGED <<batchVars, evalVars, parseVars>>

\* lines 266-275: process_file runs and its result decides the exit status;
\* an exception that leaves process_file ends the interpreter with status 1
MainProcessFile ==
    /\ cpc = "Start" /\ argv.mode = "file"
    /\ LET custom_prompt == IF argv.prompt /\ ~env.yaml.given
                            THEN Str(<<"w","h","a","t","?">>) ELSE PyNone
           o == process_file(env, custom_prompt, ~argv.no_reasoning)
       IN  /\ outcome' = o
           /\ cexit' = IF o.escaped # "none" \/ o.ret.none THEN 1 ELSE 0
    /\ cpc' = "Exited"
    /\ UNCHANGED <<argv, env>>
    /\ UNCHANGED <<batchVars, evalVars, parseVars>>

NextClient ==
    \/ MainUsage
    \/ MainHelp
    \/ MainTest
    \/ MainPromptFileWithoutPath
    \/ MainNoFile
    \/ MainProcessFile

SpecClient == InitClient /\ [][NextClient]_vars

----------------------------------------------------------------------------
(* Properties of the batch evaluator, checked under Spec *)

Verdicts == {"PASS", "FAIL", "UNCLEAR"}

\* the subprocess of job k could not be started
LaunchFailed(k) == raised # None /\ i = k

\* C1: a subprocess that cannot be launched for one video does not leave the
\* per-job boundary: the video still gets a record with verdict UNCLEAR and
\* the batch goes on.
C1_LaunchFailureIsolated ==
    \A k \in 1..Len(videos) :
        LaunchFailed(k) =>
            /\ pc # "Crashed"
            /\ Len(results) >= k
            /\ results[k].verdict = "UNCLEAR"

\* the transcript holds no 'Assistant:' marker
NoAssistantMarker(t) == ~ \E p \in 1..Len(t) : MatchAt(t, p, L_Assistant)

\* C2: every video whose transcript holds no 'Assistant:' marker (an empty
\* transcript included) gets the answer UNKNOWN and the verdict UNCLEAR.
C2_NoMarkerIsUnclear ==
    \A k \in 1..Len(results) :
        NoAssistantMarker(outputs[k]) =>
            /\ results[k].answer = L_UNKNOWN
            /\ results[k].verdict = "UNCLEAR"

\* the order in which batch_evaluate may move between its positions
C5_Edges ==
    { <<"Idle", "Enumerating">>, <<"Enumerating", "Processing">>,
      <<"Enumerating", "Returned">>, <<"Processing", "Running">>,
      <<"Processing", "Crashed">>, <<"Running", "Processing">>,
      <<"Running", "Aggregating">>, <<"Aggregating", "Saved">>,
      <<"Saved", "Reported">>, <<"Reported", "Exited">>,
      <<"Returned", "Exited">>, <<"Crashed", "Exited">> }

C5_State ==
    /\ pc = "Processing" => started = i - 1 /\ Len(results) = i - 1
    /\ pc = "Running" => started = i /\ Len(results) = i - 1
    /\ Len(results) <= Len(videos)
    /\ \A k \in 1..Len(results) : results[k].video = videos[k]
    /\ csv.written =>
          /\ Len(results) = Len(videos)
          /\ csv.rows = results
          /\ \A k \in 1..Len(videos) : csv.rows[k].video = videos[k]

C5_Step ==
    /\ <<pc, pc'>> \in C5_Edges
    /\ started' # started => started' = started + 1 /\ Len(results) = started
    /\ Len(results') \in {Len(results), Len(results) + 1}
    /\ \A k \in 1..Len(results) : results'[k] = results[k]
    /\ pc' = "Processing" /\ pc = "Running" =>
          Len(results') = i /\ i' = i + 1
    /\ csv' # csv => ~csv.written /\ pc = "Aggregating"

\* C5: the jobs run one after the other in listing order: job i+1 is started
\* only after the record of job i is appended, after job i the list holds i
\* records, the k-th for the k-th video, a record never changes, and the
\* report is written once, after all N records, with the N rows in order.
C5_SequentialJobs == []C5_State /\ [][C5_Step]_vars

C5_Witness ==
    /\ pc = "Reported"
    /\ Len(videos) = MaxVideos
    /\ csv.written /\ Len(csv.rows) = MaxVideos
    /\ videos[1].stem # 1

\* C6: after a batch run over N >= 1 videos every record has one of the
\* three verdicts, the total is N and the three tallies add up to it.
C6_TalliesAddUp ==
    summary # <<>> =>
        /\ Len(videos) >= 1
        /\ \A k \in 1..Len(results) : results[k].verdict \in Verdicts
        /\ summary[1].total = Len(videos)
        /\ summary[1].passed + summary[1].failed + summary[1].unclear
              = summary[1].total

C6_Witness ==
    /\ summary # <<>>
    /\ summary[1].passed >= 1 /\ summary[1].failed >= 1 /\ summary[1].unclear >= 1

\* C7: with no *.mp4 file in the input folder no job is started, no record
\* is made, nothing is written, and batch_evaluate returns None normally.
C7_EmptyListing ==
    (pc \notin {"Idle", "Enumerating"} /\ videos = <<>>) =>
        /\ started = 0
        /\ results = <<>>
        /\ ~csv.written
        /\ summary = <<>>
        /\ df.none
        /\ raised = None
        /\ pc \in {"Returned", "Exited"}

C7_Witness ==
    /\ pc = "Exited" /\ videos = <<>> /\ folder # {} /\ df.none /\ ~csv.written

----------------------------------------------------------------------------
(* Properties of evaluate_video, checked under SpecEval *)

\* the word w stands somewhere in token, letter case ignored
HasIgnoringCase(token, w) ==
    \E p \in 1..Len(token) :
        \A k \in 1..Len(w) :
            p + k - 1 <= Len(token) /\ UpperChar(token[p + k - 1]) = w[k]

\* C3: the verdict is PASS when the extracted token holds YES in any letter
\* case, else FAIL when it holds NO, else UNCLEAR, whatever the exit code.
C3_VerdictRule ==
    evaluated # <<>> =>
        evaluated[1].verdict =
            IF HasIgnoringCase(evaluated[1].answer, L_YES) THEN "PASS"
            ELSE IF HasIgnoringCase(evaluated[1].answer, L_NO) THEN "FAIL"
            ELSE "UNCLEAR"

C3_Witness ==
    /\ evaluated # <<>>
    /\ returncode # 0
    /\ HasIgnoringCase(evaluated[1].answer, L_YES)
    /\ HasIgnoringCase(evaluated[1].answer, L_NO)
    /\ evaluated[1].verdict = "PASS"

----------------------------------------------------------------------------
(* Properties of parse_reasoning, checked under SpecParse *)

\* t is s without its leading and trailing whitespace
IsTrimOf(t, s) ==
    \E a \in 1..(Len(s) + 1) :
        /\ \A k \in 1..(a - 1) : s[k] \in Whitespace
        /\ \E b \in 0..Len(s) :
              /\ \A k \in (b + 1)..Len(s) : s[k] \in Whitespace
              /\ t = SubSeq(s, a, b)
              /\ t # <<>> => t[1] \notin Whitespace /\ t[Len(t)] \notin Whitespace

\* s holds a section: an open marker with a close marker after it, in any
\* letter case
HasSection(s, open, close) ==
    \E p \in 1..Len(s) :
        /\ MatchAtIgnoreCase(s, p, open)
        /\ \E q \in (p + Len(open))..Len(s) : MatchAtIgnoreCase(s, q, close)

\* t is the trimmed text between the first open marker of s that has a close
\* marker after it and the nearest such close marker
IsSectionText(t, s, open, close) ==
    \E p \in 1..Len(s) :
        /\ MatchAtIgnoreCase(s, p, open)
        /\ \A x \in 1..(p - 1) :
              MatchAtIgnoreCase(s, x, open) =>
                 ~ \E y \in (x + Len(open))..Len(s) : MatchAtIgnoreCase(s, y, close)
        /\ \E q \in (p + Len(open))..Len(s) :
              /\ MatchAtIgnoreCase(s, q, close)
              /\ \A x \in (p + Len(open))..(q - 1) : ~MatchAtIgnoreCase(s, x, close)
              /\ IsTrimOf(t, SubSeq(s, p + Len(open), q - 1))

\* C8: has_explicit_sections is true exactly when a think section and an
\* answer section are both found (any order, any letter case), and then
\* reasoning and answer are the trimmed enclosed texts; otherwise reasoning is
\* absent and answer is the whole trimmed text.  answer is never null.
C8_ParseReasoning ==
    parsed # <<>> =>
        LET r == parsed[1]
            both == /\ HasSection(content, L_think, L_endthink)
                    /\ HasSection(content, L_answer, L_endanswer)
        IN  /\ r.has_sections = both
            /\ ~r.answer.none
            /\ r.has_sections => ~r.thinking.none
            /\ both =>
                  /\ IsSectionText(r.thinking.text, content, L_think, L_endthink)
                  /\ IsSectionText(r.answer.text, content, L_answer, L_endanswer)
            /\ ~both =>
                  /\ r.thinking.none
                  /\ IsTrimOf(r.answer.text, content)

\* both sections, the answer section first, the think marker in capitals
\* only, and whitespace trimmed off both texts
C8_Witness ==
    /\ parsed # <<>>
    /\ parsed[1].has_sections
    /\ FindIgnoreCase(content, L_answer, 1) < FindIgnoreCase(content, L_think, 1)
    /\ Find(content, L_think, 1) = 0
    /\ parsed[1].thinking.text = <<"r">>
    /\ parsed[1].answer.text = <<"a">>

----------------------------------------------------------------------------
(* Properties of the single-shot client, checked under SpecClient *)

Supported(e) == Lower(e.suffix) \in VIDEO_EXTENSIONS \cup IMAGE_EXTENSIONS

\* the file is missing, of an unsupported type or unreadable, or the prompt
\* file cannot be loaded
BadInput(e) ==
    \/ ~e.exists
    \/ ~Supported(e)
    \/ ~e.readable
    \/ e.yaml.given /\ (~e.yaml.opens \/ ~e.yaml.parses \/ e.yaml.kind # "mapping")

\* connection failure, timeout, non-2xx status, or reply fields missing or
\* malformed
BadReply(server) ==
    \/ server.post # "response"
    \/ server.status \notin 200..299
    \/ server.body # "content"

\* the requested operation completed and produced a result
Produced ==
    IF argv.mode = "test"
    THEN env.server.post = "response" /\ env.server.status \in 200..299
    ELSE /\ ~BadInput(env)
         /\ ~(env.yaml.given /\ env.yaml.system = "null")
         /\ ~BadReply(env.server)

\* C4: the exit status is 0 when the requested operation completed and
\* produced a result, and non-zero when the target could not be read or the
\* service could not be reached.
C4_ExitDisposition ==
    (cpc = "Exited" /\ argv.mode \in {"file", "test"}) =>
        (cexit = 0 <=> Produced)

\* C9: process_file sends at most one request and none on bad input; every
\* input error and every transport or reply failure ends it with the failure
\* result, never with an exception leaving it.
C9_OneRequestNoEscape ==
    (cpc = "Exited" /\ argv.mode = "file") =>
        /\ outcome.sent \in {0, 1}
        /\ outcome.escaped = "none"
        /\ BadInput(env) => outcome.sent = 0 /\ outcome.ret.none
        /\ (~BadInput(env) /\ BadReply(env.server)) =>
              outcome.sent <= 1 /\ outcome.ret.none
        /\ ~outcome.ret.none => outcome.sent = 1

\* a reply whose choices list is empty: caught by the last except clause only
C9_Witness ==
    /\ cpc = "Exited" /\ argv.mode = "file"
    /\ ~BadInput(env)
    /\ env.server.body = "empty choices"
    /\ outcome.sent = 1 /\ outcome.ret.none /\ cexit = 1

\* the failure categories of the single-shot client
Category(e) ==
    IF ~e.exists THEN "file-not-found"
    ELSE IF ~Supported(e) THEN "unsupported-extension"
    ELSE IF ~e.readable THEN "unreadable-file"
    ELSE IF e.yaml.given /\ (YamlRaises(e.yaml) \/ e.yaml.system = "null")
         THEN "prompt-source"
    ELSE IF e.server.post \in {"ConnectionError", "ConnectTimeout"} THEN "connection"
    ELSE IF e.server.post = "ReadTimeout" THEN "timeout"
    ELSE IF e.server.status \notin 200..299 THEN "http-status"
    ELSE IF e.server.body # "content" THEN "malformed-reply"
    ELSE "success"

\* C10: two failures of different categories never give the caller of
\* process_file the same result.
C10_FailuresDistinguishable ==
    (cpc = "Exited" /\ argv.mode = "file" /\ Category(env) # "success") =>
        \A e \in Envs :
            (Category(e) \notin {"success", Category(env)}) =>
                process_file(e, PyNone, TRUE).ret # outcome.ret

====
